---- MODULE Spec2Model ----
(***************************************************************************)
(* Model of the Canadian Dental Care Plan portal.  The larger part is the   *)
(* "apply" wizard of the frontend:                                         *)
(* the wizard state kept in the session, the flow guards                   *)
(* (route-helpers/apply-adult-child-route-helpers.server.ts), the review   *)
(* and step actions of the adult and child flows, and the session storage  *)
(* that persists the whole session record (services/session-service).     *)
(*                                                                         *)
(* A request reads the session record from the store when it starts, runs  *)
(* its handler on that private copy and writes the copy back when the      *)
(* handler has changed it.  Spec lets NProcs requests of the same session  *)
(* interleave; SeqSpec runs one request at a time (the single-writer       *)
(* assumption of the design).                                              *)
(*                                                                         *)
(* An optional scalar of the wizard state is the string "undefined" when   *)
(* absent; an optional object is the empty sequence when absent and a      *)
(* one-element sequence holding the object when present.                   *)
(*                                                                         *)
(* The services next to the wizard (the mock subscription API with its     *)
(* confirmation codes, the backend's SubscriptionsController, the Redis    *)
(* session storage operation by operation) have their own variables and    *)
(* specifications; the                                                    *)
(* wizard's specifications leave them at their initial values.             *)
(***************************************************************************)
EXTENDS Integers, Sequences, FiniteSets, TLC

VARIABLES
  store,            \* the session record persisted for the session cookie
  req,              \* per request slot: the request in flight and its private session
  service,          \* the Submission Service: its answer to each call, in call order
  hCaptchaEnabled,  \* ENABLED_FEATURES.includes('hcaptcha'), fixed per deployment
  uuids,            \* how many wizard ids have been generated; an id is its ordinal
  subscriptionConfirmationCode,  \* the mock API's table of confirmation-code records
  clock,            \* the time new Date() answers
  codeReply,        \* the last answer of the mock API's /v1/codes endpoints
  subscription,     \* the backend's subscription table
  thread,           \* per request thread of SubscriptionsController: where it is
  redis,            \* the Redis database: the string stored under each key, if any
  sessionId,        \* the sessionId constant of createRedisSessionStorage
  sessions,         \* the ids createData has returned, in order
  sessionReply,     \* the last operation of the Redis session storage and its result
  contactReply      \* the last contact-information form, field by field, and what was saved

wizardVars == <<store, req, service, hCaptchaEnabled, uuids>>
codeVars == <<subscriptionConfirmationCode, clock, codeReply>>
subscriptionVars == <<subscription, thread>>
redisVars == <<redis, sessionId, sessions, sessionReply>>
contactVars == <<contactReply>>
apiVars == <<codeVars, subscriptionVars, redisVars, contactVars>>

vars == <<wizardVars, apiVars>>

----------------------------------------------------------------------------
(* Bounds *)

NProcs == 2       \* request slots that may be in flight together
MaxCalls == 2     \* Submission Service calls explored
MaxIds == 2       \* wizard ids generated

Procs == 1..NProcs

----------------------------------------------------------------------------
(* Values *)

Undefined == "undefined"
None == <<>>
Some(v) == <<v>>
IsSet(o) == o # None
Get(o) == o[1]

Lang == "en"
WizardId == 1          \* the id of the wizard state the session starts with
IdParam == "$id"       \* the id segment of a path: the id of the session's wizard state
CsrfToken == "csrf-1"
Tokens == {CsrfToken, "csrf-forged"}

EmailMethod == "email"          \* COMMUNICATION_METHOD_EMAIL_ID
MailMethod == "mail"
ValidEmails == {"a@x", "b@x"}
Emails == {"", "nomail"} \cup ValidEmails
ConfirmationCodes == {"ABC123", "DEF456"}

Flows == {"adult", "adult-child", "child"}

\* getPathById(routeId, params): the path of a route of the wizard, as segments
FlowPath(flow, step) == <<Lang, "apply", IdParam, flow, step>>
ApplyPath(step) == <<Lang, "apply", IdParam, step>>
ApplyIndexPath == <<Lang, "apply">>
UnableToProcessPath == <<Lang, "unable-to-process-request">>
ReturnBtnLink == <<"apply:eligibility.file-your-taxes.return-btn-link">>

\* String.prototype.endsWith on paths
EndsWith(path, suffix) ==
  /\ Len(suffix) <= Len(path)
  /\ SubSeq(path, Len(path) - Len(suffix) + 1, Len(path)) = suffix

----------------------------------------------------------------------------
(* Wizard state (ApplyState) *)

NewApplyState ==
  [ id |-> WizardId,
    typeOfApplication |-> Undefined,
    taxFiling2023 |-> Undefined,
    dateOfBirth |-> Undefined,
    applicantInformation |-> Undefined,     \* the marital status when set
    partnerInformation |-> Undefined,
    contactInformation |-> None,
    communicationPreferences |-> None,
    dentalInsurance |-> Undefined,
    dentalBenefits |-> Undefined,
    editMode |-> FALSE,
    submissionInfo |-> None ]

FieldGroups ==
  { "typeOfApplication", "taxFiling2023", "dateOfBirth", "applicantInformation",
    "partnerInformation", "contactInformation", "communicationPreferences",
    "dentalInsurance", "dentalBenefits" }

\* the session record: the anti-forgery token and the wizard state, if any
SessionOf(apply) == [csrfToken |-> CsrfToken, apply |-> apply]
HasApply(session) == IsSet(session.apply)
ApplyOf(session) == Get(session.apply)

\* Outcome of a guard or handler step
Ok == [kind |-> "ok", to |-> <<>>]
Redirect(path) == [kind |-> "redirect", to |-> path]
Render == [kind |-> "render", to |-> <<>>]
Errors == [kind |-> "errors", to |-> <<>>]
Status400 == [kind |-> "status400", to |-> <<>>]
Thrown == [kind |-> "thrown", to |-> <<>>]
Pending == [kind |-> "pending", to |-> <<>>]

----------------------------------------------------------------------------
(* apply-route-helpers.server: load, save, clear *)

\* loadApplyState: the wizard state of the session, or a redirect to the start
loadApplyState(session) ==
  IF HasApply(session) THEN Ok ELSE Redirect(ApplyIndexPath)

saveApplyState_Replace(session, partial) ==
  LET merged == [k \in DOMAIN NewApplyState |->
                   IF k \in DOMAIN partial THEN partial[k] ELSE NewApplyState[k]]
  IN  [session EXCEPT !.apply = Some(merged)]

\* saveApplyState: merge the partial into the wizard state of the session
saveApplyState(session, partial) ==
  LET cur == ApplyOf(session)
      merged == [k \in DOMAIN cur |-> IF k \in DOMAIN partial THEN partial[k] ELSE cur[k]]
  IN  [session EXCEPT !.apply = Some(merged)]

\* clearApplyState: remove the wizard state from the session
clearApplyState(session) == [session EXCEPT !.apply = None]

----------------------------------------------------------------------------
(* Flow guards *)

\* applicantInformationStateHasPartner
applicantInformationStateHasPartner(maritalStatus) ==
  maritalStatus \in {"married", "commonlaw"}

loadApplyAdultChildState_NoTypeCheck(session, pathname) ==
  LET loaded == loadApplyState(session)
      confirmationRouteUrl == FlowPath("adult-child", "confirmation")
  IN
  IF loaded.kind # "ok" THEN loaded
  ELSE IF IsSet(ApplyOf(session).submissionInfo) /\ ~EndsWith(pathname, confirmationRouteUrl)
    THEN Redirect(confirmationRouteUrl)
  ELSE Ok

\* loadApplyAdultChildState: the guard of the adult-child flow
loadApplyAdultChildState(session, pathname) ==
  LET loaded == loadApplyState(session)
      confirmationRouteUrl == FlowPath("adult-child", "confirmation")
  IN
  IF loaded.kind # "ok" THEN loaded
  ELSE IF ApplyOf(session).typeOfApplication # "adult-child"
    THEN Redirect(ApplyPath("type-application"))
  ELSE IF IsSet(ApplyOf(session).submissionInfo) /\ ~EndsWith(pathname, confirmationRouteUrl)
    THEN Redirect(confirmationRouteUrl)
  \* the redirect of an unsubmitted state away from the confirmation page is
  \* commented out in the source: the guard only logs and returns the state
  ELSE Ok

\* the steps in registry order, with the field group each one fills
Registry ==
  << [step |-> "tax-filing", field |-> "taxFiling2023"],
     [step |-> "date-of-birth", field |-> "dateOfBirth"],
     [step |-> "applicant-information", field |-> "applicantInformation"],
     [step |-> "partner-information", field |-> "partnerInformation"],
     [step |-> "contact-information", field |-> "contactInformation"],
     [step |-> "communication-preference", field |-> "communicationPreferences"],
     [step |-> "dental-insurance", field |-> "dentalInsurance"],
     [step |-> "federal-provincial-territorial-benefits", field |-> "dentalBenefits"] >>

MissingAt(state, i) ==
  IF Registry[i].field = "partnerInformation"
    THEN /\ state.partnerInformation = Undefined
         /\ applicantInformationStateHasPartner(state.applicantInformation)
    ELSE IF Registry[i].field \in {"contactInformation", "communicationPreferences"}
      THEN ~IsSet(state[Registry[i].field])
      ELSE state[Registry[i].field] = Undefined

\* the position of a step in the registry; the steps outside it (review,
\* confirmation) come after every registry step
RegistryIndex(step) ==
  IF \E i \in 1..Len(Registry) : Registry[i].step = step
    THEN CHOOSE i \in 1..Len(Registry) : Registry[i].step = step
    ELSE Len(Registry) + 1

\* the registry steps before position k whose field group is missing
MissingBefore(state, k) == { i \in 1..(k - 1) : MissingAt(state, i) }

EarliestMissing(state, k) ==
  CHOOSE i \in MissingBefore(state, k) : \A j \in MissingBefore(state, k) : i <= j

\* loadApplyAdultState / loadApplyChildState: the guards of the adult and child
\* flows. A request for a registry step is let through only when the field
\* groups of the steps before it are present; the review and confirmation
\* steps have their own rules.
loadApplyFlowState(flow, session, pathname) ==
  LET loaded == loadApplyState(session)
      confirmationRouteUrl == FlowPath(flow, "confirmation")
      k == RegistryIndex(pathname[Len(pathname)])
  IN
  IF loaded.kind # "ok" THEN loaded
  ELSE IF ApplyOf(session).typeOfApplication # flow
    THEN Redirect(ApplyPath("type-application"))
  ELSE IF IsSet(ApplyOf(session).submissionInfo) /\ ~EndsWith(pathname, confirmationRouteUrl)
    THEN Redirect(confirmationRouteUrl)
  ELSE IF ~IsSet(ApplyOf(session).submissionInfo) /\ EndsWith(pathname, confirmationRouteUrl)
    THEN Redirect(ApplyPath("terms-and-conditions"))
  ELSE IF k <= Len(Registry) /\ MissingBefore(ApplyOf(session), k) # {}
    THEN Redirect(FlowPath(flow, Registry[EarliestMissing(ApplyOf(session), k)].step))
  ELSE Ok

loadApplyAdultState(session, pathname) == loadApplyFlowState("adult", session, pathname)

loadApplyChildState(session, pathname) == loadApplyFlowState("child", session, pathname)

\* the guard a route of the given flow calls
FlowGuard(flow, session, pathname) ==
  CASE flow = "adult-child" -> loadApplyAdultChildState(session, pathname)
    [] flow = "adult" -> loadApplyAdultState(session, pathname)
    [] OTHER -> loadApplyChildState(session, pathname)

\* validateApplyAdultChildStateForReview: the checks after date of birth are
\* commented out in the source
validateApplyAdultChildStateForReview(state) ==
  IF state.typeOfApplication = Undefined THEN Redirect(ApplyPath("type-application"))
  ELSE IF state.typeOfApplication = "delegate" THEN Redirect(ApplyPath("application-delegate"))
  ELSE IF state.typeOfApplication # "adult-child" THEN Redirect(ApplyPath("type-application"))
  ELSE IF state.taxFiling2023 = Undefined THEN Redirect(FlowPath("adult-child", "tax-filing"))
  ELSE IF state.taxFiling2023 # "true" THEN Redirect(FlowPath("adult-child", "file-taxes"))
  ELSE IF state.dateOfBirth = Undefined THEN Redirect(FlowPath("adult-child", "date-of-birth"))
  ELSE Ok

\* validateApply<Flow>StateForReview of the adult and child flows: every field
\* group of the terminal schema, in registry order
validateApplyFlowStateForReview(flow, state) ==
  IF state.typeOfApplication = Undefined THEN Redirect(ApplyPath("type-application"))
  ELSE IF state.typeOfApplication = "delegate" THEN Redirect(ApplyPath("application-delegate"))
  ELSE IF state.typeOfApplication # flow THEN Redirect(ApplyPath("type-application"))
  ELSE IF state.taxFiling2023 = Undefined THEN Redirect(FlowPath(flow, "tax-filing"))
  ELSE IF state.taxFiling2023 # "true" THEN Redirect(FlowPath(flow, "file-taxes"))
  ELSE IF state.dateOfBirth = Undefined THEN Redirect(FlowPath(flow, "date-of-birth"))
  ELSE IF state.applicantInformation = Undefined
    THEN Redirect(FlowPath(flow, "applicant-information"))
  ELSE IF state.partnerInformation = Undefined
          /\ applicantInformationStateHasPartner(state.applicantInformation)
    THEN Redirect(FlowPath(flow, "partner-information"))
  ELSE IF state.partnerInformation # Undefined
          /\ ~applicantInformationStateHasPartner(state.applicantInformation)
    THEN Redirect(FlowPath(flow, "applicant-information"))
  ELSE IF ~IsSet(state.contactInformation)
    THEN Redirect(FlowPath(flow, "contact-information"))
  ELSE IF ~IsSet(state.communicationPreferences)
    THEN Redirect(FlowPath(flow, "communication-preference"))
  ELSE IF state.dentalInsurance = Undefined THEN Redirect(FlowPath(flow, "dental-insurance"))
  ELSE IF state.dentalBenefits = Undefined
    THEN Redirect(FlowPath(flow, "federal-provincial-territorial-benefits"))
  ELSE Ok

\* loadApplyAdultStateForReview / loadApplyChildStateForReview
loadApplyFlowStateForReview(flow, session, pathname) ==
  LET guard == loadApplyFlowState(flow, session, pathname) IN
  IF guard.kind # "ok" THEN guard
  ELSE validateApplyFlowStateForReview(flow, ApplyOf(session))

loadApplyAdultStateForReview(session, pathname) ==
  loadApplyFlowStateForReview("adult", session, pathname)

loadApplyChildStateForReview(session, pathname) ==
  loadApplyFlowStateForReview("child", session, pathname)

----------------------------------------------------------------------------
(* Form data *)

ReviewForms ==
  [csrf : Tokens, action : {"back", "submit"}, captcha : BOOLEAN]

\* the mailing and home address stand for the address fields of the form
ContactData ==
  { [email |-> e, confirmEmail |-> c, mailingAddress |-> m,
     copyMailingAddress |-> cp, homeAddress |-> h] :
      e \in Emails, c \in {"", "a@x"}, m \in {"", "m1"}, cp \in BOOLEAN, h \in {"", "h1"} }

CommunicationData ==
  { [preferredLanguage |-> l, preferredMethod |-> m, email |-> e, confirmEmail |-> c] :
      l \in {"", "en"}, m \in {"", EmailMethod, MailMethod}, e \in Emails, c \in {"", "a@x"} }

\* validator.isEmail
isEmail(e) == e \in ValidEmails

----------------------------------------------------------------------------
(* Handlers: the outcome of a handler run on the request's private session *)

\* the handler has finished: the session it leaves, the keys it saved, its response
Done(session, dirty, written, resp) ==
  [next |-> "respond", session |-> session, dirty |-> dirty, written |-> written,
   resp |-> resp, payload |-> None]

\* the handler awaits benefitApplicationService.submitApplication(payload)
Await(session, payload) ==
  [next |-> "await", session |-> session, dirty |-> FALSE, written |-> {},
   resp |-> Pending, payload |-> Some(payload)]

\* toBenefitApplicationRequestFromApplyAdultState: the request carries the field groups
toBenefitApplicationRequestFromApplyAdultState(state) ==
  [k \in FieldGroups |-> state[k]]

ReviewInformationLoaderHandler_NoEditMode(session) ==
  LET guard == loadApplyAdultStateForReview(session, FlowPath("adult", "review-information")) IN
  IF guard.kind # "ok" THEN Done(session, FALSE, {}, guard)
  ELSE Done(session, FALSE, {}, Render)

\* adult/review-information loader
ReviewInformationLoaderHandler(session) ==
  LET guard == loadApplyAdultStateForReview(session, FlowPath("adult", "review-information")) IN
  IF guard.kind # "ok" THEN Done(session, FALSE, {}, guard)
  ELSE Done(saveApplyState(session, [editMode |-> TRUE]), TRUE, {"editMode"}, Render)

ReviewInformationActionHandler_NoCaptcha(session, form, captchaEnabled) ==
  LET guard == loadApplyAdultStateForReview(session, FlowPath("adult", "review-information")) IN
  IF guard.kind # "ok" THEN Done(session, FALSE, {}, guard)
  ELSE IF session.csrfToken # form.csrf THEN Done(session, FALSE, {}, Status400)
  ELSE IF form.action = "back"
    THEN Done(saveApplyState(session, [editMode |-> FALSE]), TRUE, {"editMode"},
              Redirect(FlowPath("adult", "federal-provincial-territorial-benefits")))
  ELSE Await(session, toBenefitApplicationRequestFromApplyAdultState(ApplyOf(session)))

ReviewInformationActionHandler_NoGuard(session, form, captchaEnabled) ==
  IF ~HasApply(session) THEN Done(session, FALSE, {}, Redirect(ApplyIndexPath))
  ELSE IF session.csrfToken # form.csrf THEN Done(session, FALSE, {}, Status400)
  ELSE IF form.action = "back"
    THEN Done(saveApplyState(session, [editMode |-> FALSE]), TRUE, {"editMode"},
              Redirect(FlowPath("adult", "federal-provincial-territorial-benefits")))
  ELSE IF captchaEnabled /\ ~form.captcha
    THEN Done(clearApplyState(session), TRUE, {}, Redirect(UnableToProcessPath))
  ELSE Await(session, toBenefitApplicationRequestFromApplyAdultState(ApplyOf(session)))

\* adult/review-information action, up to the call of the Submission Service
ReviewInformationActionHandler(session, form, captchaEnabled) ==
  LET guard == loadApplyAdultStateForReview(session, FlowPath("adult", "review-information")) IN
  IF guard.kind # "ok" THEN Done(session, FALSE, {}, guard)
  ELSE IF session.csrfToken # form.csrf THEN Done(session, FALSE, {}, Status400)
  ELSE IF form.action = "back"
    THEN Done(saveApplyState(session, [editMode |-> FALSE]), TRUE, {"editMode"},
              Redirect(FlowPath("adult", "federal-provincial-territorial-benefits")))
  ELSE IF captchaEnabled /\ ~form.captcha
    THEN Done(clearApplyState(session), TRUE, {}, Redirect(UnableToProcessPath))
  ELSE Await(session, toBenefitApplicationRequestFromApplyAdultState(ApplyOf(session)))

ReviewInformationActionSubmitted_WrongCode(session, confirmationCode, now) ==
  LET submissionInfo == [confirmationCode |-> "", submittedOn |-> now] IN
  Done(saveApplyState(session, [submissionInfo |-> Some(submissionInfo)]), TRUE,
       {"submissionInfo"}, Redirect(FlowPath("adult", "confirmation")))

\* adult/review-information action, after submitApplication returned confirmationCode
ReviewInformationActionSubmitted(session, confirmationCode, now) ==
  LET submissionInfo == [confirmationCode |-> confirmationCode, submittedOn |-> now] IN
  Done(saveApplyState(session, [submissionInfo |-> Some(submissionInfo)]), TRUE,
       {"submissionInfo"}, Redirect(FlowPath("adult", "confirmation")))

ReviewInformationActionFailed_SavesAnyway(session) ==
  Done(saveApplyState(session, [submissionInfo |-> Some([confirmationCode |-> "", submittedOn |-> 0])]),
       TRUE, {"submissionInfo"}, Thrown)

\* adult/review-information action, when submitApplication throws: the action throws
\* before it saves anything
ReviewInformationActionFailed(session) ==
  Done(session, FALSE, {}, Thrown)

\* personalInformationSchema.safeParse of child/contact-information
ContactInformationValid(data) ==
  /\ (data.email # "" \/ data.confirmEmail # "") =>
        /\ isEmail(data.email)
        /\ isEmail(data.confirmEmail)
        /\ data.email = data.confirmEmail
  /\ data.mailingAddress # ""
  /\ ~data.copyMailingAddress => data.homeAddress # ""

\* updatedData of child/contact-information
ContactInformationUpdatedData(data) ==
  IF data.copyMailingAddress
    THEN [data EXCEPT !.homeAddress = data.mailingAddress]
    ELSE data

ContactInformationActionHandler_SavesInvalid(session, csrf, data) ==
  LET guard == loadApplyChildState(session, FlowPath("child", "contact-information")) IN
  IF guard.kind # "ok" THEN Done(session, FALSE, {}, guard)
  ELSE IF session.csrfToken # csrf THEN Done(session, FALSE, {}, Status400)
  ELSE
    LET state == ApplyOf(session)
        updatedData == ContactInformationUpdatedData(data)
        saved == saveApplyState(session, [contactInformation |-> Some(updatedData)])
        to == IF state.editMode THEN FlowPath("child", "review-adult-information")
                                ELSE FlowPath("child", "communication-preference")
    IN Done(saved, TRUE, {"contactInformation"},
            IF ContactInformationValid(data) THEN Redirect(to) ELSE Errors)

ContactInformationActionHandler_SyncAnyMethod(session, csrf, data) ==
  LET guard == loadApplyChildState(session, FlowPath("child", "contact-information")) IN
  IF guard.kind # "ok" THEN Done(session, FALSE, {}, guard)
  ELSE IF session.csrfToken # csrf THEN Done(session, FALSE, {}, Status400)
  ELSE IF ~ContactInformationValid(data) THEN Done(session, FALSE, {}, Errors)
  ELSE
    LET state == ApplyOf(session)
        updatedData == ContactInformationUpdatedData(data)
        saved == saveApplyState(session, [contactInformation |-> Some(updatedData)])
        sync == updatedData.email # "" /\ IsSet(state.communicationPreferences)
        synced ==
          IF sync
            THEN saveApplyState(saved,
                   [communicationPreferences |->
                      Some([Get(state.communicationPreferences) EXCEPT !.email = updatedData.email])])
            ELSE saved
        to == IF state.editMode THEN FlowPath("child", "review-adult-information")
                                ELSE FlowPath("child", "communication-preference")
    IN Done(synced, TRUE,
            IF sync THEN {"contactInformation", "communicationPreferences"}
                    ELSE {"contactInformation"},
            Redirect(to))

\* child/contact-information action
ContactInformationActionHandler(session, csrf, data) ==
  LET guard == loadApplyChildState(session, FlowPath("child", "contact-information")) IN
  IF guard.kind # "ok" THEN Done(session, FALSE, {}, guard)
  ELSE IF session.csrfToken # csrf THEN Done(session, FALSE, {}, Status400)
  ELSE IF ~ContactInformationValid(data) THEN Done(session, FALSE, {}, Errors)
  ELSE
    LET state == ApplyOf(session)
        updatedData == ContactInformationUpdatedData(data)
        saved == saveApplyState(session, [contactInformation |-> Some(updatedData)])
        sync == /\ updatedData.email # ""
                /\ IsSet(state.communicationPreferences)
                /\ Get(state.communicationPreferences).preferredMethod = EmailMethod
        synced ==
          IF sync
            THEN saveApplyState(saved,
                   [communicationPreferences |->
                      Some([Get(state.communicationPreferences) EXCEPT !.email = updatedData.email])])
            ELSE saved
        to == IF state.editMode THEN FlowPath("child", "review-adult-information")
                                ELSE FlowPath("child", "communication-preference")
    IN Done(synced, TRUE,
            IF sync THEN {"contactInformation", "communicationPreferences"}
                    ELSE {"contactInformation"},
            Redirect(to))

\* formSchema.safeParse of child/communication-preference
CommunicationPreferenceValid(state, data) ==
  /\ data.preferredLanguage # ""
  /\ data.preferredMethod # ""
  /\ data.preferredMethod = EmailMethod =>
        /\ isEmail(data.email)
        /\ (~IsSet(state.contactInformation) \/ Get(state.contactInformation).email = "") =>
              /\ isEmail(data.confirmEmail)
              /\ data.email = data.confirmEmail

CommunicationPreferenceActionHandler_SavedEditMode(session, csrf, data) ==
  LET guard == loadApplyChildState(session, FlowPath("child", "communication-preference")) IN
  IF guard.kind # "ok" THEN Done(session, FALSE, {}, guard)
  ELSE IF session.csrfToken # csrf THEN Done(session, FALSE, {}, Status400)
  ELSE IF ~CommunicationPreferenceValid(ApplyOf(session), data) THEN Done(session, FALSE, {}, Errors)
  ELSE
    LET saved == saveApplyState(session, [communicationPreferences |-> Some(data), editMode |-> TRUE])
        to == IF ApplyOf(saved).editMode THEN FlowPath("child", "review-adult-information")
                                         ELSE FlowPath("child", "review-child-information")
    IN Done(saved, TRUE, {"communicationPreferences", "editMode"}, Redirect(to))

CommunicationPreferenceActionHandler_NoGuard(session, csrf, data) ==
  LET loaded == loadApplyState(session) IN
  IF loaded.kind # "ok" THEN Done(session, FALSE, {}, loaded)
  ELSE IF session.csrfToken # csrf THEN Done(session, FALSE, {}, Status400)
  ELSE IF ~CommunicationPreferenceValid(ApplyOf(session), data) THEN Done(session, FALSE, {}, Errors)
  ELSE
    LET state == ApplyOf(session)
        to == IF state.editMode THEN FlowPath("child", "review-adult-information")
                                ELSE FlowPath("child", "review-child-information")
    IN Done(saveApplyState(session, [communicationPreferences |-> Some(data), editMode |-> TRUE]),
            TRUE, {"communicationPreferences", "editMode"}, Redirect(to))

\* child/communication-preference action
CommunicationPreferenceActionHandler(session, csrf, data) ==
  LET guard == loadApplyChildState(session, FlowPath("child", "communication-preference")) IN
  IF guard.kind # "ok" THEN Done(session, FALSE, {}, guard)
  ELSE IF session.csrfToken # csrf THEN Done(session, FALSE, {}, Status400)
  ELSE IF ~CommunicationPreferenceValid(ApplyOf(session), data) THEN Done(session, FALSE, {}, Errors)
  ELSE
    LET state == ApplyOf(session)
        to == IF state.editMode THEN FlowPath("child", "review-adult-information")
                                ELSE FlowPath("child", "review-child-information")
    IN Done(saveApplyState(session, [communicationPreferences |-> Some(data), editMode |-> TRUE]),
            TRUE, {"communicationPreferences", "editMode"}, Redirect(to))

\* child/review-child-information loader
ReviewChildInformationLoaderHandler(session) ==
  LET guard == loadApplyChildStateForReview(session, FlowPath("child", "review-child-information")) IN
  IF guard.kind # "ok" THEN Done(session, FALSE, {}, guard)
  ELSE Done(saveApplyState(session, [editMode |-> TRUE]), TRUE, {"editMode"}, Render)

ReviewChildInformationActionHandler_CaptchaFirst(session, form, captchaEnabled) ==
  LET guard == loadApplyChildStateForReview(session, FlowPath("child", "review-child-information")) IN
  IF guard.kind # "ok" THEN Done(session, FALSE, {}, guard)
  ELSE IF captchaEnabled /\ ~form.captcha
    THEN Done(clearApplyState(session), TRUE, {}, Redirect(UnableToProcessPath))
  ELSE IF session.csrfToken # form.csrf THEN Done(session, FALSE, {}, Status400)
  ELSE IF form.action = "back"
    THEN Done(saveApplyState(session, [editMode |-> FALSE]), TRUE, {"editMode"},
              Redirect(FlowPath("child", "communication-preference")))
  ELSE Done(saveApplyState(session, <<>>), TRUE, {},
            Redirect(FlowPath("child", "review-adult-information")))

\* child/review-child-information action
ReviewChildInformationActionHandler(session, form, captchaEnabled) ==
  LET guard == loadApplyChildStateForReview(session, FlowPath("child", "review-child-information")) IN
  IF guard.kind # "ok" THEN Done(session, FALSE, {}, guard)
  ELSE IF session.csrfToken # form.csrf THEN Done(session, FALSE, {}, Status400)
  ELSE IF captchaEnabled /\ ~form.captcha
    THEN Done(clearApplyState(session), TRUE, {}, Redirect(UnableToProcessPath))
  ELSE IF form.action = "back"
    THEN Done(saveApplyState(session, [editMode |-> FALSE]), TRUE, {"editMode"},
              Redirect(FlowPath("child", "communication-preference")))
  ELSE Done(saveApplyState(session, <<>>), TRUE, {},
            Redirect(FlowPath("child", "review-adult-information")))

FlowRouteLoaderHandler_ClearsOnRedirect(flow, step, session) ==
  LET guard == FlowGuard(flow, session, FlowPath(flow, step)) IN
  IF guard.kind # "ok" THEN Done(clearApplyState(session), TRUE, {}, guard)
  ELSE Done(session, FALSE, {}, Render)

\* a loader of a flow route: the flow guard decides, the page renders when it passes
FlowRouteLoaderHandler(flow, step, session) ==
  LET guard == FlowGuard(flow, session, FlowPath(flow, step)) IN
  IF guard.kind # "ok" THEN Done(session, FALSE, {}, guard)
  ELSE Done(session, FALSE, {}, Render)

\* the review route of the adult-child flow: the flow guard, then the review validation
AdultChildReviewLoaderHandler(session) ==
  LET guard == loadApplyAdultChildState(session, FlowPath("adult-child", "review-information")) IN
  IF guard.kind # "ok" THEN Done(session, FALSE, {}, guard)
  ELSE LET valid == validateApplyAdultChildStateForReview(ApplyOf(session)) IN
       IF valid.kind # "ok" THEN Done(session, FALSE, {}, valid)
       ELSE Done(session, FALSE, {}, Render)

\* adult-child children summary action: the token check, then on to the next step
ChildSummaryActionHandler(session, csrf) ==
  IF session.csrfToken # csrf THEN Done(session, FALSE, {}, Status400)
  ELSE Done(session, FALSE, {}, Redirect(FlowPath("adult-child", "personal-information")))

\* apply/$id/file-taxes action: clear the state without loading it, leave the site
FileYourTaxesActionHandler(session) ==
  Done(clearApplyState(session), TRUE, {}, Redirect(ReturnBtnLink))

\* the start of the wizard (the page exit-application redirects to): a fresh
\* wizard state with a newly generated id
ApplyStartLoaderHandler(session, id) ==
  Done([session EXCEPT !.apply = Some([NewApplyState EXCEPT !.id = id])], TRUE,
       DOMAIN NewApplyState, Redirect(ApplyPath("index")))

\* apply/$id index loader: load the state, save it back whole, go to type-application
IndexLoaderHandler(session) ==
  LET loaded == loadApplyState(session) IN
  IF loaded.kind # "ok" THEN Done(session, FALSE, {}, loaded)
  ELSE Done(saveApplyState(session, ApplyOf(session)), TRUE, DOMAIN ApplyOf(session),
            Redirect(ApplyPath("type-application")))

ExitApplicationActionHandler_NoClear(session) ==
  LET loaded == loadApplyState(session) IN
  IF loaded.kind # "ok" THEN Done(session, FALSE, {}, loaded)
  ELSE Done(session, TRUE, {}, Redirect(ApplyIndexPath))

\* exit-application action: load the state, then clear it
ExitApplicationActionHandler(session) ==
  LET loaded == loadApplyState(session) IN
  IF loaded.kind # "ok" THEN Done(session, FALSE, {}, loaded)
  ELSE Done(clearApplyState(session), TRUE, {}, Redirect(ApplyIndexPath))

----------------------------------------------------------------------------
(* Initial states: the wizard state the session holds when the modelled       *)
(* requests start.  The steps before contact information, and the review of   *)
(* the adult-child flow, are routes outside this model: the state they leave  *)
(* is drawn here, filled in registry order.                                   *)

ContactPreset ==
  [email |-> "a@x", confirmEmail |-> "a@x", mailingAddress |-> "m1",
   copyMailingAddress |-> TRUE, homeAddress |-> "m1"]

CommunicationPreset ==
  [preferredLanguage |-> "en", preferredMethod |-> EmailMethod, email |-> "a@x",
   confirmEmail |-> ""]

SubmissionPreset == [confirmationCode |-> "ABC123", submittedOn |-> 0]

\* every field group of the terminal schema is present
IsComplete(fields) ==
  /\ fields.typeOfApplication \in Flows
  /\ fields.taxFiling2023 = "true"
  /\ fields.dateOfBirth # Undefined
  /\ fields.applicantInformation # Undefined
  /\ applicantInformationStateHasPartner(fields.applicantInformation)
        <=> fields.partnerInformation # Undefined
  /\ IsSet(fields.contactInformation)
  /\ IsSet(fields.communicationPreferences)
  /\ fields.dentalInsurance # Undefined
  /\ fields.dentalBenefits # Undefined

\* a field group is present only when the groups before it are
FilledInOrder(s) ==
  /\ s.typeOfApplication \in {Undefined, "delegate"} => s.taxFiling2023 = Undefined
  /\ s.taxFiling2023 # "true" => s.dateOfBirth = Undefined
  /\ s.dateOfBirth = Undefined => s.applicantInformation = Undefined
  /\ s.applicantInformation = Undefined =>
        s.partnerInformation = Undefined /\ ~IsSet(s.contactInformation)
  /\ ~IsSet(s.contactInformation) => ~IsSet(s.communicationPreferences)
  /\ ~IsSet(s.communicationPreferences) => s.dentalInsurance = Undefined
  /\ s.dentalInsurance = Undefined => s.dentalBenefits = Undefined
  /\ IsSet(s.submissionInfo) => IsComplete(s)

InitialApplyStates ==
  { s \in [ id : {WizardId},
            typeOfApplication : {Undefined, "delegate"} \cup Flows,
            taxFiling2023 : {Undefined, "true", "false"},
            dateOfBirth : {Undefined, "dob"},
            applicantInformation : {Undefined, "single", "married"},
            partnerInformation : {Undefined, "partner"},
            contactInformation : {None, Some(ContactPreset)},
            communicationPreferences : {None, Some(CommunicationPreset)},
            dentalInsurance : {Undefined, "yes"},
            dentalBenefits : {Undefined, "benefits"},
            editMode : {FALSE},
            submissionInfo : {None, Some(SubmissionPreset)} ] : FilledInOrder(s) }

\* the states the interleaved specification starts from
ConcurrentApplyStates ==
  { s \in InitialApplyStates :
      /\ s.typeOfApplication \in {"adult", "child"}
      /\ s.applicantInformation = "single"
      /\ s.partnerInformation = Undefined
      /\ ~IsSet(s.submissionInfo)
      /\ IF s.typeOfApplication = "adult" THEN IsComplete(s)
                                          ELSE /\ IsSet(s.contactInformation)
                                               /\ ~IsSet(s.communicationPreferences) }

\* the route a request is for: a flow ("apply" for the routes above the flows), a step
\* and "loader" (GET) or "action" (POST)
Route(flow, step, method) == [flow |-> flow, step |-> step, method |-> method]

NoRoute == Route("none", "none", "none")

Idle ==
  [pc |-> "idle", route |-> NoRoute, session |-> SessionOf(None), dirty |-> FALSE,
   written |-> {}, resp |-> Pending, payload |-> None, form |-> None]

\* the form data a POST carries: the _csrf field and the other fields
Form(csrf, data) == Some([csrf |-> csrf, data |-> data])

\* the services next to the wizard before their first request
CodeIdle == [op |-> "none", email |-> "", confirmationCode |-> "", timeEntered |-> 0,
             status |-> 0, confirmCodeStatus |-> ""]

CodesIdle ==
  /\ subscriptionConfirmationCode = <<>>
  /\ clock = 0
  /\ codeReply = CodeIdle

ThreadIdle == [pc |-> "idle", userId |-> "", alertTypeCode |-> "", user |-> {}, status |-> 0]

SubscriptionsIdle ==
  /\ subscription = <<>>
  /\ thread = [t \in Procs |-> ThreadIdle]

\* JavaScript's null, and the answer of redis.get for a key that is not set
JsNull == [null |-> "null"]
RedisNil == [nil |-> "nil"]

SessionIds == {"uuid-1", "uuid-2"}

SessionReplyIdle == [op |-> "none", id |-> "", data |-> JsNull, result |-> JsNull]

RedisEmpty ==
  /\ redis = [id \in SessionIds |-> RedisNil]
  /\ sessions = <<>>
  /\ sessionReply = SessionReplyIdle

RedisIdle == RedisEmpty /\ sessionId = "uuid-1"

ContactIdle == contactReply = [data |-> <<>>, saved |-> None, status |-> "idle"]

ApiIdle == CodesIdle /\ SubscriptionsIdle /\ RedisIdle /\ ContactIdle

InitFrom(applyStates) ==
  /\ store \in { SessionOf(Some(s)) : s \in applyStates }
  /\ req = [p \in Procs |-> Idle]
  /\ service = <<>>
  /\ hCaptchaEnabled \in BOOLEAN
  /\ uuids = WizardId
  /\ ApiIdle

\* the wizard while a specification of another service runs: no session, no request
WizardIdle ==
  /\ store = SessionOf(None)
  /\ req = [p \in Procs |-> Idle]
  /\ service = <<>>
  /\ hCaptchaEnabled = FALSE
  /\ uuids = WizardId

Init == InitFrom(ConcurrentApplyStates)

SeqInit == InitFrom(InitialApplyStates)

----------------------------------------------------------------------------
(* Requests *)

\* the calls the Submission Service has observed, and those it answered with a code
Calls == Len(service)
Accepted == Cardinality({i \in 1..Len(service) : service[i] # "error"})

\* sessionStorage.getSession: readData parses the stored record into a private copy
readData == store

\* a request starts: it reads the session and runs its handler on the copy
Run(p, route, form, outcome) ==
  /\ req[p].pc = "idle"
  /\ req' = [req EXCEPT ![p] =
               [pc |-> outcome.next, route |-> route, session |-> outcome.session,
                dirty |-> outcome.dirty, written |-> outcome.written,
                resp |-> outcome.resp, payload |-> outcome.payload, form |-> form]]
  /\ UNCHANGED <<store, service, hCaptchaEnabled, uuids, apiVars>>

ReviewInformationLoader(p) ==
  Run(p, Route("adult", "review-information", "loader"), None,
      ReviewInformationLoaderHandler(readData))

ReviewInformationAction(p, form) ==
  /\ Calls + Cardinality({q \in Procs : req[q].pc = "await"}) < MaxCalls
  /\ Run(p, Route("adult", "review-information", "action"), Form(form.csrf, form),
         ReviewInformationActionHandler(readData, form, hCaptchaEnabled))

\* benefitApplicationService.submitApplication returns a confirmation code
SubmitApplicationSucceeds(p) ==
  /\ req[p].pc = "await"
  /\ \E confirmationCode \in ConfirmationCodes :
       LET outcome == ReviewInformationActionSubmitted(req[p].session, confirmationCode,
                                                       Calls + 1)
       IN /\ req' = [req EXCEPT ![p] =
                       [pc |-> "respond", route |-> req[p].route, session |-> outcome.session,
                        dirty |-> outcome.dirty, written |-> outcome.written,
                        resp |-> outcome.resp, payload |-> req[p].payload,
                   form |-> req[p].form]]
          /\ service' = Append(service, confirmationCode)
  /\ UNCHANGED <<store, hCaptchaEnabled, uuids, apiVars>>

\* benefitApplicationService.submitApplication throws: the action throws with it
SubmitApplicationFails(p) ==
  /\ req[p].pc = "await"
  /\ LET outcome == ReviewInformationActionFailed(req[p].session)
     IN req' = [req EXCEPT ![p] =
                  [pc |-> "respond", route |-> req[p].route, session |-> outcome.session,
                   dirty |-> outcome.dirty, written |-> outcome.written,
                   resp |-> outcome.resp, payload |-> req[p].payload,
                   form |-> req[p].form]]
  /\ service' = Append(service, "error")
  /\ UNCHANGED <<store, hCaptchaEnabled, uuids, apiVars>>

ContactInformationAction(p, csrf, data) ==
  Run(p, Route("child", "contact-information", "action"), Form(csrf, data),
      ContactInformationActionHandler(readData, csrf, data))

CommunicationPreferenceAction(p, csrf, data) ==
  Run(p, Route("child", "communication-preference", "action"), Form(csrf, data),
      CommunicationPreferenceActionHandler(readData, csrf, data))

ReviewChildInformationLoader(p) ==
  Run(p, Route("child", "review-child-information", "loader"), None,
      ReviewChildInformationLoaderHandler(readData))

ReviewChildInformationAction(p, form) ==
  Run(p, Route("child", "review-child-information", "action"), Form(form.csrf, form),
      ReviewChildInformationActionHandler(readData, form, hCaptchaEnabled))

GuardedSteps == {"date-of-birth", "confirmation"}

FlowRouteLoader(p, flow, step) ==
  Run(p, Route(flow, step, "loader"), None, FlowRouteLoaderHandler(flow, step, readData))

AdultChildReviewLoader(p) ==
  Run(p, Route("adult-child", "review-information", "loader"), None,
      AdultChildReviewLoaderHandler(readData))

IndexLoader(p) ==
  Run(p, Route("apply", "index", "loader"), None, IndexLoaderHandler(readData))

ChildSummaryAction(p, csrf) ==
  Run(p, Route("adult-child", "children", "action"), Form(csrf, <<>>),
      ChildSummaryActionHandler(readData, csrf))

FileYourTaxesAction(p) ==
  Run(p, Route("apply", "file-taxes", "action"), None, FileYourTaxesActionHandler(readData))

\* the session holds one wizard state at a time: the wizard is started when
\* the session holds none; randomUUID gives an id no earlier call gave
ApplyStartLoader(p) ==
  /\ req[p].pc = "idle"
  /\ ~HasApply(readData)
  /\ uuids < MaxIds
  /\ LET outcome == ApplyStartLoaderHandler(readData, uuids + 1)
     IN req' = [req EXCEPT ![p] =
                  [pc |-> outcome.next, route |-> Route("apply", "start", "loader"),
                   session |-> outcome.session, dirty |-> outcome.dirty,
                   written |-> outcome.written, resp |-> outcome.resp,
                   payload |-> outcome.payload, form |-> None]]
  /\ uuids' = uuids + 1
  /\ UNCHANGED <<store, service, hCaptchaEnabled, apiVars>>

ExitApplicationAction(p) ==
  Run(p, Route("apply", "exit-application", "action"), None,
      ExitApplicationActionHandler(readData))

\* sessionStorage.commitSession: updateData replaces the stored record with the
\* request's copy; the response goes out
updateData(p) ==
  /\ req[p].pc = "respond"
  /\ store' = IF req[p].dirty THEN req[p].session ELSE store
  /\ req' = [req EXCEPT ![p] = Idle]
  /\ UNCHANGED <<service, hCaptchaEnabled, uuids, apiVars>>

----------------------------------------------------------------------------
(* Specifications *)

ConcurrentContactData ==
  { d \in ContactData : d.confirmEmail = d.email /\ d.mailingAddress = "m1"
                        /\ d.copyMailingAddress /\ d.homeAddress = "" }

ConcurrentCommunicationData ==
  { d \in CommunicationData : d.preferredLanguage = "en" /\ d.preferredMethod = MailMethod
                              /\ d.email = "" /\ d.confirmEmail = "" }

\* the forms of the interleaved specification carry the session's token
ConcurrentReviewForms == { form \in ReviewForms : form.csrf = CsrfToken }

\* the form data the requests of a specification are drawn from
ConcurrentInputs ==
  [tokens |-> {CsrfToken}, review |-> ConcurrentReviewForms,
   contact |-> ConcurrentContactData, communication |-> ConcurrentCommunicationData]

AllInputs ==
  [tokens |-> Tokens, review |-> ReviewForms,
   contact |-> ContactData, communication |-> CommunicationData]

Start(p, inputs) ==
  \/ ReviewInformationLoader(p)
  \/ \E form \in inputs.review : ReviewInformationAction(p, form)
  \/ \E csrf \in inputs.tokens, data \in inputs.contact :
       ContactInformationAction(p, csrf, data)
  \/ \E csrf \in inputs.tokens, data \in inputs.communication :
       CommunicationPreferenceAction(p, csrf, data)
  \/ ReviewChildInformationLoader(p)
  \/ \E form \in inputs.review : ReviewChildInformationAction(p, form)
  \/ \E flow \in Flows, step \in GuardedSteps : FlowRouteLoader(p, flow, step)
  \/ AdultChildReviewLoader(p)
  \/ \E csrf \in inputs.tokens : ChildSummaryAction(p, csrf)
  \/ IndexLoader(p)
  \/ ExitApplicationAction(p)
  \/ FileYourTaxesAction(p)
  \/ ApplyStartLoader(p)

Continue(p) ==
  \/ SubmitApplicationSucceeds(p)
  \/ SubmitApplicationFails(p)
  \/ updateData(p)

\* requests of the same session interleave
Next ==
  \E p \in Procs : Start(p, ConcurrentInputs) \/ Continue(p)

Spec == Init /\ [][Next]_vars

\* one request at a time
SeqNext ==
  \/ Start(1, AllInputs)
  \/ Continue(1)

SeqSpec == SeqInit /\ [][SeqNext]_vars

----------------------------------------------------------------------------
(* The mock subscription API: confirmation codes (/v1/codes/verify and      *)
(* /v1/codes/request over db.subscriptionConfirmationCode).  Time is        *)
(* counted in days.                                                         *)

MaxTime == 4      \* days the clock runs
MaxSeeds == 2     \* code records the table is seeded with

TwoDays == 2      \* 2 * 24 * 60 * 60 * 1000 ms
IssuedId == "0000101"
IssuedCode == "0101"

CodeEmails == {"a@example.com", "b@example.com"}
EnteredCodes == {IssuedCode, "1234"}

\* db.subscriptionConfirmationCode.findMany({ where: { email: { equals: email } } })
findMany(table, email) == SelectSeq(table, LAMBDA r : r.email = email)

\* db.subscriptionConfirmationCode.create(record): the id is the primary key
\* of the table, a second record with the same id is refused
create(table, record) ==
  IF \E i \in 1..Len(table) : table[i].id = record.id
    THEN [ok |-> FALSE, table |-> table]
    ELSE [ok |-> TRUE, table |-> Append(table, record)]

\* db.subscriptionConfirmationCode.update({ where: { email equals }, data }):
\* the first record of the email takes the data
update(table, email, data) ==
  LET first == CHOOSE i \in 1..Len(table) :
                 /\ table[i].email = email
                 /\ \A j \in 1..(i - 1) : table[j].email # email
  IN  [table EXCEPT ![first] =
         [k \in DOMAIN table[first] |-> IF k \in DOMAIN data THEN data[k] ELSE table[first][k]]]

\* entities.reduce((prev, current) => (prev.createdDate > current.createdDate ? prev : current))
latestConfirmCode(entities) ==
  LET acc[i \in 1..Len(entities)] ==
        IF i = 1 THEN entities[1]
        ELSE IF acc[i - 1].createdDate > entities[i].createdDate THEN acc[i - 1]
        ELSE entities[i]
  IN  acc[Len(entities)]

\* POST /v1/codes/verify: the confirmCodeStatus answered at timeEntered
verifyCode(table, email, confirmationCode, timeEntered) ==
  LET entities == findMany(table, email) IN
  IF Len(entities) = 0 THEN "noCode"
  ELSE LET latest == latestConfirmCode(entities) IN
       IF latest.confirmationCode = confirmationCode /\ timeEntered < latest.expiryDate
         THEN "Valid"
       ELSE IF latest.confirmationCode = confirmationCode /\ timeEntered > latest.expiryDate
         THEN "expired"
       ELSE "mismatch"

\* POST /v1/codes/request: the table it leaves and the status it answers
requestCode(table, email, timeEntered) ==
  LET entities == findMany(table, email) IN
  IF Len(entities) = 0
    THEN LET created == create(table, [id |-> IssuedId, email |-> email,
                                       confirmationCode |-> IssuedCode,
                                       createdDate |-> timeEntered,
                                       expiryDate |-> timeEntered + TwoDays])
         IN  [table |-> created.table, status |-> IF created.ok THEN 204 ELSE 500]
    ELSE [table |-> update(table, email, [confirmationCode |-> IssuedCode,
                                          createdDate |-> timeEntered,
                                          expiryDate |-> timeEntered + TwoDays]),
          status |-> 204]

\* new Date() moves on
Tick ==
  /\ clock < MaxTime
  /\ clock' = clock + 1
  /\ UNCHANGED <<subscriptionConfirmationCode, codeReply, wizardVars, subscriptionVars, redisVars, contactVars>>

VerifyCodeRequest(email, confirmationCode) ==
  /\ codeReply' = [op |-> "verify", email |-> email, confirmationCode |-> confirmationCode,
                   timeEntered |-> clock, status |-> 200,
                   confirmCodeStatus |->
                     verifyCode(subscriptionConfirmationCode, email, confirmationCode, clock)]
  /\ UNCHANGED <<subscriptionConfirmationCode, clock, wizardVars, subscriptionVars, redisVars, contactVars>>

NewCodeRequest(email) ==
  LET done == requestCode(subscriptionConfirmationCode, email, clock) IN
  /\ subscriptionConfirmationCode' = done.table
  /\ codeReply' = [op |-> "request", email |-> email, confirmationCode |-> "",
                   timeEntered |-> clock, status |-> done.status,
                   confirmCodeStatus |-> IF done.status = 204 THEN "No Content" ELSE ""]
  /\ UNCHANGED <<clock, wizardVars, subscriptionVars, redisVars, contactVars>>

\* the records the table may be seeded with: the i-th seed has the i-th id
SeedIds == <<"0000001", "0000002", "0000003">>
SeedTables ==
  UNION { { [i \in 1..n |-> [id |-> SeedIds[i], email |-> f[i].email,
                               confirmationCode |-> f[i].confirmationCode,
                               createdDate |-> f[i].createdDate,
                               expiryDate |-> f[i].expiryDate]] :
            f \in [1..n -> [email : CodeEmails, confirmationCode : EnteredCodes,
                            createdDate : 0..1, expiryDate : {1, 3}]] } :
          n \in 0..MaxSeeds }

\* verification over a seeded table
VerifyInit ==
  /\ WizardIdle
  /\ SubscriptionsIdle
  /\ RedisIdle
  /\ ContactIdle
  /\ subscriptionConfirmationCode \in SeedTables
  /\ clock = 0
  /\ codeReply = CodeIdle

VerifyNext ==
  \/ Tick
  \/ \E email \in CodeEmails, code \in EnteredCodes : VerifyCodeRequest(email, code)

VerifySpec == VerifyInit /\ [][VerifyNext]_vars

\* the code endpoints from an empty table
CodeInit == WizardIdle /\ ApiIdle

CodeNext ==
  \/ Tick
  \/ \E email \in CodeEmails : NewCodeRequest(email)
  \/ \E email \in CodeEmails, code \in EnteredCodes : VerifyCodeRequest(email, code)

CodeSpec == CodeInit /\ [][CodeNext]_vars

----------------------------------------------------------------------------
(* The backend: SubscriptionsController.createSubscriptionForUser over the  *)
(* subscription table.  Request threads run the controller method          *)
(* concurrently; the method is not transactional and the table has no      *)
(* unique constraint on (user_id, alert_type_id).                          *)

Users == {"user-1"}
UserIds == Users \cup {"user-0"}
AlertTypeCodes == {"CDCP", "OTHER"}

\* user.getSubscriptions(): the rows of the user
getSubscriptions(table, userId) ==
  { table[i] : i \in { j \in 1..Len(table) : table[j].userId = userId } }

\* userService.getUserById(userId), or ResourceNotFoundException (404)
getUserById(t, userId, alertTypeCode) ==
  /\ thread[t].pc = "idle"
  /\ thread' = [thread EXCEPT ![t] =
       IF userId \in Users
         THEN [pc |-> "filter", userId |-> userId, alertTypeCode |-> alertTypeCode,
               user |-> getSubscriptions(subscription, userId), status |-> 0]
         ELSE [pc |-> "idle", userId |-> userId, alertTypeCode |-> alertTypeCode,
               user |-> {}, status |-> 404]]
  /\ UNCHANGED <<subscription, wizardVars, codeVars, redisVars, contactVars>>

\* filter(byAlertTypeCode(...)).findFirst().ifPresent(throw ResourceConflictException) (409)
byAlertTypeCode(t) ==
  /\ thread[t].pc = "filter"
  /\ thread' = [thread EXCEPT ![t] =
       IF \E existingSubscription \in thread[t].user :
            existingSubscription.alertTypeCode = thread[t].alertTypeCode
         THEN [@ EXCEPT !.pc = "idle", !.status = 409]
         ELSE [@ EXCEPT !.pc = "create"]]
  /\ UNCHANGED <<subscription, wizardVars, codeVars, redisVars, contactVars>>

\* userService.createSubscriptionForUser(userId, subscription): a new row (204)
createSubscriptionForUser(t) ==
  /\ thread[t].pc = "create"
  /\ subscription' = Append(subscription,
                            [id |-> Len(subscription) + 1, userId |-> thread[t].userId,
                             alertTypeCode |-> thread[t].alertTypeCode])
  /\ thread' = [thread EXCEPT ![t] = [@ EXCEPT !.pc = "idle", !.status = 204]]
  /\ UNCHANGED <<wizardVars, codeVars, redisVars, contactVars>>

SubscriptionInit == WizardIdle /\ ApiIdle

SubscriptionNext ==
  \E t \in Procs :
    \/ \E userId \in UserIds, alertTypeCode \in AlertTypeCodes :
         getUserById(t, userId, alertTypeCode)
    \/ byAlertTypeCode(t)
    \/ createSubscriptionForUser(t)

SubscriptionSpec == SubscriptionInit /\ [][SubscriptionNext]_vars

----------------------------------------------------------------------------
(* services/session-service.server: the Redis-backed session storage, one   *)
(* operation at a time.  Session data is an object: a function from its     *)
(* keys to values, "undefined" for a key whose value is undefined.  Keys are *)
(* set with an expiry (EX); the model stays within the expiry time.         *)

MaxSessions == 2  \* createData calls explored

SessionKeys == {"email", "phoneNumber"}
JsValues == {Undefined, "x"}
SessionData == UNION { [K -> JsValues] : K \in SUBSET SessionKeys }

\* JSON.stringify(data): the text of an object leaves out the keys whose value
\* is undefined
JSONstringify(data) ==
  [json |-> [k \in {key \in DOMAIN data : data[key] # Undefined} |-> data[k]]]

\* JSON.parse(text): the object of the text; JSON.parse(null) is null
JSONparse(text) == IF text = RedisNil THEN JsNull ELSE text.json

\* redisService.set / get / del
redisSet(db, key, value) == [db EXCEPT ![key] = value]
redisGet(db, key) == db[key]
redisDel(db, key) == [db EXCEPT ![key] = RedisNil]

\* createData: store the data under the storage's sessionId and return it
RedisCreateData(data) ==
  /\ Len(sessions) < MaxSessions
  /\ redis' = redisSet(redis, sessionId, JSONstringify(data))
  /\ sessions' = Append(sessions, sessionId)
  /\ sessionReply' = [op |-> "createData", id |-> sessionId, data |-> data, result |-> JsNull]
  /\ UNCHANGED <<sessionId, wizardVars, codeVars, subscriptionVars, contactVars>>

\* readData
RedisReadData(id) ==
  /\ sessionReply' = [op |-> "readData", id |-> id, data |-> JsNull,
                      result |-> JSONparse(redisGet(redis, id))]
  /\ UNCHANGED <<redis, sessionId, sessions, wizardVars, codeVars, subscriptionVars, contactVars>>

RedisUpdateData_OwnId(id, data) ==
  /\ redis' = redisSet(redis, sessionId, JSONstringify(data))
  /\ sessionReply' = [op |-> "updateData", id |-> id, data |-> data, result |-> JsNull]
  /\ UNCHANGED <<sessionId, sessions, wizardVars, codeVars, subscriptionVars, contactVars>>

\* updateData
RedisUpdateData(id, data) ==
  /\ redis' = redisSet(redis, id, JSONstringify(data))
  /\ sessionReply' = [op |-> "updateData", id |-> id, data |-> data, result |-> JsNull]
  /\ UNCHANGED <<sessionId, sessions, wizardVars, codeVars, subscriptionVars, contactVars>>

\* deleteData
RedisDeleteData(id) ==
  /\ redis' = redisDel(redis, id)
  /\ sessionReply' = [op |-> "deleteData", id |-> id, data |-> JsNull, result |-> JsNull]
  /\ UNCHANGED <<sessionId, sessions, wizardVars, codeVars, subscriptionVars, contactVars>>

\* createRedisSessionStorage(): randomUUID() is drawn once, for the storage
RedisInit ==
  /\ WizardIdle
  /\ CodesIdle
  /\ SubscriptionsIdle
  /\ RedisEmpty
  /\ sessionId \in SessionIds
  /\ ContactIdle

RedisNext ==
  \/ \E data \in SessionData : RedisCreateData(data)
  \/ \E id \in SessionIds : RedisReadData(id)
  \/ \E id \in SessionIds, data \in SessionData : RedisUpdateData(id, data)
  \/ \E id \in SessionIds : RedisDeleteData(id)

RedisSpec == RedisInit /\ [][RedisNext]_vars

----------------------------------------------------------------------------
(* child/contact-information, the address fields one by one: what the       *)
(* action parses from the form and what it saves as contactInformation.    *)
(* A form value is undefined or a string, a string being the sequence of   *)
(* its characters.  The phone and email fields are left to the wizard       *)
(* model above.                                                           *)

JsUndefined == [defined |-> FALSE, chars |-> <<>>]
Str(chars) == [defined |-> TRUE, chars |-> chars]

\* JavaScript truthiness of a form value: a string that is not empty
Truthy(v) == v.defined /\ v.chars # <<>>

CANADA_COUNTRY_ID == <<"C", "A">>
USA_COUNTRY_ID == <<"U", "S">>
OtherCountryId == <<"F", "R">>

\* String.prototype.trim
trimChars(chars) ==
  LET inked == { i \in 1..Len(chars) : chars[i] # " " } IN
  IF inked = {} THEN <<>>
  ELSE SubSeq(chars, CHOOSE i \in inked : \A j \in inked : i <= j,
                     CHOOSE i \in inked : \A j \in inked : j <= i)

\* z.string().trim() and z.string().trim().optional()
zodTrim(v) == IF v.defined THEN Str(trimChars(v.chars)) ELSE v

toUpperCase(chars) == [i \in 1..Len(chars) |-> IF chars[i] = "a" THEN "A" ELSE chars[i]]
removeSpaces(chars) == SelectSeq(chars, LAMBDA c : c # " ")

\* formatPostalCode: a Canadian postal code is written in capitals with one
\* space after its third character
formatPostalCode(country, code) ==
  IF country = CANADA_COUNTRY_ID
    THEN LET bare == toUpperCase(removeSpaces(code)) IN
         IF Len(bare) > 3 THEN SubSeq(bare, 1, 3) \o <<" ">> \o SubSeq(bare, 4, Len(bare))
         ELSE bare
    ELSE code

\* isValidPostalCode: for Canada, letter digit letter digit letter digit,
\* with or without spaces, in either case
isValidPostalCode(country, code) ==
  IF country = CANADA_COUNTRY_ID
    THEN LET bare == toUpperCase(removeSpaces(code)) IN
         /\ Len(bare) = 6
         /\ \A i \in 1..6 : IF i % 2 = 1 THEN bare[i] = "A" ELSE bare[i] = "1"
    ELSE TRUE

AddressFields == {"Address", "Apartment", "Country", "Province", "City", "PostalCode"}

\* the object the schema's fields parse the form data into
schemaObject(data) ==
  [mailingAddress |-> zodTrim(data.mailingAddress),
   mailingApartment |-> zodTrim(data.mailingApartment),
   mailingCountry |-> zodTrim(data.mailingCountry),
   mailingProvince |-> zodTrim(data.mailingProvince),
   mailingCity |-> zodTrim(data.mailingCity),
   mailingPostalCode |-> zodTrim(data.mailingPostalCode),
   copyMailingAddress |-> data.copyMailingAddress,
   homeAddress |-> zodTrim(data.homeAddress),
   homeApartment |-> zodTrim(data.homeApartment),
   homeCountry |-> zodTrim(data.homeCountry),
   homeProvince |-> zodTrim(data.homeProvince),
   homeCity |-> zodTrim(data.homeCity),
   homePostalCode |-> zodTrim(data.homePostalCode)]

\* the issues of one address of superRefine: province and postal code of a
\* Canadian or American address
regionIssues(country, province, postalCode) ==
  (country.chars \in {CANADA_COUNTRY_ID, USA_COUNTRY_ID}) =>
     /\ Truthy(province)
     /\ Truthy(postalCode)
     /\ isValidPostalCode(country.chars, postalCode.chars)

\* personalInformationSchema.safeParse succeeds (address fields)
addressValid(val) ==
  /\ val.mailingAddress.chars # <<>>
  /\ val.mailingCountry.chars # <<>>
  /\ val.mailingCity.chars # <<>>
  /\ val.mailingProvince.defined => val.mailingProvince.chars # <<>>
  /\ regionIssues(val.mailingCountry, val.mailingProvince, val.mailingPostalCode)
  /\ ~( /\ val.mailingCountry.chars # CANADA_COUNTRY_ID
        /\ Truthy(val.mailingPostalCode)
        /\ isValidPostalCode(CANADA_COUNTRY_ID, val.mailingPostalCode.chars) )
  /\ ~val.copyMailingAddress =>
        /\ Truthy(val.homeAddress)
        /\ Truthy(val.homeCountry)
        /\ Truthy(val.homeCity)
        /\ regionIssues(val.homeCountry, val.homeProvince, val.homePostalCode)
        /\ ~( /\ val.homeCountry.chars = USA_COUNTRY_ID
              /\ Truthy(val.homePostalCode)
              /\ isValidPostalCode(CANADA_COUNTRY_ID, val.homePostalCode.chars) )

\* the schema's transform: the postal codes are formatted
schemaTransform(val) ==
  [val EXCEPT
     !.homePostalCode =
        IF Truthy(val.homeCountry) /\ Truthy(val.homePostalCode)
          THEN Str(formatPostalCode(val.homeCountry.chars, val.homePostalCode.chars)) ELSE @,
     !.mailingPostalCode =
        IF Truthy(val.mailingCountry) /\ Truthy(val.mailingPostalCode)
          THEN Str(formatPostalCode(val.mailingCountry.chars, val.mailingPostalCode.chars)) ELSE @]

updatedData_KeepsHomeCity(parsed) ==
  IF parsed.copyMailingAddress
    THEN [parsed EXCEPT !.homeAddress = parsed.mailingAddress,
                        !.homeApartment = parsed.mailingApartment,
                        !.homeCountry = parsed.mailingCountry,
                        !.homeProvince = parsed.mailingProvince,
                        !.homePostalCode = parsed.mailingPostalCode]
    ELSE parsed

\* updatedData: the home address of a copied mailing address
updatedData(parsed) ==
  IF parsed.copyMailingAddress
    THEN [parsed EXCEPT !.homeAddress = parsed.mailingAddress,
                        !.homeApartment = parsed.mailingApartment,
                        !.homeCountry = parsed.mailingCountry,
                        !.homeProvince = parsed.mailingProvince,
                        !.homeCity = parsed.mailingCity,
                        !.homePostalCode = parsed.mailingPostalCode]
    ELSE parsed

\* the address forms submitted; formData.get(...) ? String(...) : undefined
\* makes the optional fields undefined or non-empty
PostalCodes ==
  { JsUndefined, Str(<<"a", "1", "a", "1", "a", "1", " ">>),
    Str(<<"A", "1", "A", " ", "1", "A", "1">>) }

ContactForms ==
  [mailingAddress : {Str(<<>>), Str(<<"m">>), Str(<<" ", "m", " ">>)},
   mailingApartment : {JsUndefined, Str(<<"1">>)},
   mailingCountry : {Str(CANADA_COUNTRY_ID), Str(OtherCountryId)},
   mailingProvince : {JsUndefined, Str(<<"O", "N">>)},
   mailingCity : {Str(<<"c">>)},
   mailingPostalCode : PostalCodes,
   copyMailingAddress : BOOLEAN,
   homeAddress : {JsUndefined, Str(<<"h">>), Str(<<" ", "h">>)},
   homeApartment : {JsUndefined, Str(<<"2">>)},
   homeCountry : {JsUndefined, Str(CANADA_COUNTRY_ID), Str(OtherCountryId)},
   homeProvince : {JsUndefined, Str(<<"Q", "C">>)},
   homeCity : {JsUndefined, Str(<<"d">>)},
   homePostalCode : PostalCodes]

\* the action on the submitted form: the errors, or the contactInformation it saves
ContactFormAction ==
  LET data == contactReply.data
      valid == addressValid(schemaObject(data))
  IN
  /\ contactReply.status = "submitted"
  /\ contactReply' =
       [data |-> data,
        saved |-> IF valid THEN Some(updatedData(schemaTransform(schemaObject(data))))
                           ELSE None,
        status |-> IF valid THEN "saved" ELSE "errors"]
  /\ UNCHANGED <<wizardVars, codeVars, subscriptionVars, redisVars>>

\* a form has been submitted
ContactInit ==
  /\ WizardIdle
  /\ CodesIdle
  /\ SubscriptionsIdle
  /\ RedisIdle
  /\ contactReply \in { [data |-> data, saved |-> None, status |-> "submitted"] :
                          data \in ContactForms }

ContactNext == ContactFormAction

ContactSpec == ContactInit /\ [][ContactNext]_vars

----------------------------------------------------------------------------
(* Properties *)

Submitted(session) == HasApply(session) /\ IsSet(ApplyOf(session).submissionInfo)

InFlight(p) == req[p].pc # "idle"

\* the request is for a step of one of the flows, so it runs behind the flow's guard
FlowRequest(p) == InFlight(p) /\ req[p].route.flow \in Flows

ReviewSubmitRoute == Route("adult", "review-information", "action")

\* the actions that abandon the wizard
ClearRoutes ==
  { Route("apply", "exit-application", "action"), Route("apply", "file-taxes", "action") }

StepActionRoutes ==
  { Route("child", "contact-information", "action"),
    Route("child", "communication-preference", "action") }

\* C1: two interleaved review-step submits of the same complete, not yet
\* submitted session lead to at most one application accepted by the
\* Submission Service (and so to one persisted submissionInfo).
C1_AtMostOneSubmission ==
  Accepted <= 1

\* C2: while submissionInfo is set, a request for a step of the state's own
\* flow other than the confirmation step is answered with a redirect to the
\* confirmation step, and is neither rendered nor acted on.
C2_SubmittedRedirectsToConfirmation ==
  \A p \in Procs :
    (/\ FlowRequest(p) /\ Submitted(store) /\ req[p].route.step # "confirmation"
     /\ ApplyOf(store).typeOfApplication = req[p].route.flow) =>
      (req[p].resp = Redirect(FlowPath(req[p].route.flow, "confirmation")) /\ ~req[p].dirty)

\* C3: once submissionInfo is set, no step submission, review action or
\* repeated submit changes the wizard state (submissionInfo, field groups) for
\* as long as the state exists, and the Submission Service accepts no second
\* application; only the exit-application and file-your-taxes actions, which
\* remove the whole state, leave the submitted state.
C3_SubmittedIsTerminal ==
  [][ /\ (Submitted(store) /\ HasApply(store')) => store' = store
      /\ (Submitted(store) /\ ~HasApply(store')) =>
            \E p \in Procs : /\ req[p].route \in ClearRoutes
                             /\ req'[p].pc = "idle"
      /\ Submitted(store) => service' = service ]_vars

C3_Witness ==
  /\ Submitted(store)
  /\ Accepted = 1
  /\ req[1].route = ReviewSubmitRoute
  /\ req[1].pc = "respond"
  /\ ~req[1].dirty
  /\ req[1].resp = Redirect(FlowPath("adult", "confirmation"))

\* C4: when the Submission Service call fails, nothing is persisted: the
\* request's session is the stored one, submissionInfo stays unset, the error
\* is thrown to the caller, the store is unchanged when the request ends, and
\* the state still passes the review guard, so a later submit can succeed.
C4_FailedSubmitKeepsState ==
  /\ [](\A p \in Procs :
          req[p].resp = Thrown =>
            /\ req[p].route = ReviewSubmitRoute
            /\ ~req[p].dirty
            /\ req[p].session = store
            /\ ~Submitted(store)
            /\ loadApplyAdultStateForReview(store, FlowPath("adult", "review-information")) = Ok)
  /\ [][ \A p \in Procs :
           /\ (req[p].pc = "await" /\ Calls' > Calls /\ service'[Calls'] = "error") =>
                 (req'[p].resp = Thrown /\ store' = store)
           /\ (req[p].resp = Thrown /\ req'[p].pc = "idle") => store' = store ]_vars

C4_Witness ==
  /\ Calls = 2
  /\ service[1] = "error"
  /\ service[2] # "error"
  /\ Submitted(store)

\* C5: submissionInfo becomes set only when a review-step submit that got a
\* confirmation code from the Submission Service ends, and the persisted
\* confirmationCode (and call time) is the one of that call.
C5_OnlySubmitMakesTerminal ==
  [][ (~Submitted(store) /\ Submitted(store')) =>
        \E p \in Procs :
          /\ req[p].route = ReviewSubmitRoute
          /\ req[p].pc = "respond"
          /\ req'[p].pc = "idle"
          /\ LET info == Get(ApplyOf(store').submissionInfo) IN
               /\ info.submittedOn \in 1..Calls
               /\ info.confirmationCode = service[info.submittedOn] ]_vars

C5_Witness ==
  /\ Submitted(store)
  /\ Calls >= 1
  /\ Get(ApplyOf(store).submissionInfo).confirmationCode = service[Calls]
  /\ Get(ApplyOf(store).submissionInfo).submittedOn = Calls

\* the field groups the terminal schema requires, as C6 lists them
HasRequiredFields(fields) ==
  /\ fields.taxFiling2023 # Undefined
  /\ fields.dateOfBirth # Undefined
  /\ fields.applicantInformation # Undefined
  /\ applicantInformationStateHasPartner(fields.applicantInformation)
        => fields.partnerInformation # Undefined
  /\ IsSet(fields.contactInformation)
  /\ IsSet(fields.communicationPreferences)
  /\ fields.dentalInsurance # Undefined
  /\ fields.dentalBenefits # Undefined

ReviewRoutes ==
  { Route("adult", "review-information", "loader"),
    Route("adult", "review-information", "action"),
    Route("adult-child", "review-information", "loader"),
    Route("child", "review-child-information", "loader"),
    Route("child", "review-child-information", "action") }

\* the review validation let the request through
PassedReview(p) ==
  /\ InFlight(p)
  /\ req[p].route \in ReviewRoutes
  /\ \/ req[p].pc = "await"
     \/ req[p].resp.kind \in {"render", "status400", "thrown"}
     \/ req[p].dirty

\* C6: the Submission Service is called only with every required field
\* group, and for every application type the review-step validation lets a
\* request through only when every required field group is present.
C6_ReviewRequiresEveryField ==
  \A p \in Procs :
    /\ req[p].pc = "await" => HasRequiredFields(Get(req[p].payload))
    /\ (PassedReview(p) /\ HasApply(store)) => HasRequiredFields(ApplyOf(store))

\* C7: a request for the review step of a flow, made with a state of that
\* flow in which a required earlier field group is missing, is redirected to
\* the earliest missing step in registry order.
C7_RedirectsToEarliestMissing ==
  \A p \in Procs :
    (/\ InFlight(p) /\ req[p].route \in ReviewRoutes
     /\ HasApply(store) /\ ~Submitted(store)
     /\ ApplyOf(store).typeOfApplication = req[p].route.flow
     /\ ApplyOf(store).taxFiling2023 # "false"
     /\ ApplyOf(store).partnerInformation # Undefined
           => applicantInformationStateHasPartner(ApplyOf(store).applicantInformation)
     /\ MissingBefore(ApplyOf(store), Len(Registry) + 1) # {}) =>
       req[p].resp =
         Redirect(FlowPath(req[p].route.flow, Registry[EarliestMissing(ApplyOf(store), Len(Registry) + 1)].step))

\* C8: in every stored wizard state a field group is populated only if the
\* groups of the steps before it are (communication preferences only with
\* contact information, contact information only with applicant information),
\* and a POST to the communication-preference or contact-information action
\* made while an earlier step is empty is redirected and saves nothing.
C8_PrerequisitesPopulated ==
  /\ HasApply(store) =>
       /\ IsSet(ApplyOf(store).communicationPreferences) => IsSet(ApplyOf(store).contactInformation)
       /\ IsSet(ApplyOf(store).contactInformation) => ApplyOf(store).applicantInformation # Undefined
  /\ \A p \in Procs :
       (/\ InFlight(p) /\ req[p].route \in StepActionRoutes
        /\ HasApply(req[p].session)
        /\ MissingBefore(ApplyOf(req[p].session), RegistryIndex(req[p].route.step)) # {}) =>
          (req[p].resp.kind = "redirect" /\ ~req[p].dirty)

C8_Witness ==
  /\ HasApply(store)
  /\ ApplyOf(store).typeOfApplication = "child"
  /\ ~IsSet(ApplyOf(store).contactInformation)
  /\ req[1].route = Route("child", "communication-preference", "action")
  /\ req[1].resp = Redirect(FlowPath("child", "contact-information"))
  /\ ~req[1].dirty

\* C9: a request for the confirmation step of a flow made while
\* submissionInfo is absent is redirected and not let through to the
\* confirmation route.
C9_UnsubmittedConfirmationRedirects ==
  \A p \in Procs :
    (/\ FlowRequest(p) /\ req[p].route.step = "confirmation"
     /\ HasApply(store) /\ ~Submitted(store)) =>
       req[p].resp.kind = "redirect"

\* C10: when a step submission ends and writes the session back, every field
\* group it did not save keeps the value the store holds at that moment: the
\* write of one submission does not remove or revert what another has stored.
C10_FieldGroupLastWriteWins ==
  [][ \A p \in Procs :
        (/\ req[p].route \in StepActionRoutes
         /\ req[p].pc = "respond" /\ req[p].dirty
         /\ req'[p].pc = "idle"
         /\ HasApply(store)) =>
          /\ HasApply(store')
          /\ \A k \in FieldGroups \ req[p].written :
               ApplyOf(store')[k] = ApplyOf(store)[k] ]_vars

StateKeys == DOMAIN NewApplyState

\* C11: a save changes only the keys of its partial: while a request that has
\* loaded a wizard state and saved (and not cleared) is in flight, every key of the wizard state that is
\* not a key of a partial it saved (id, typeOfApplication and submissionInfo
\* included) has in the request's session the value it had when the request
\* loaded the state.
C11_SaveChangesOnlyItsKeys ==
  \A p \in Procs :
    (InFlight(p) /\ req[p].dirty /\ HasApply(store) /\ HasApply(req[p].session)) =>
      \A k \in StateKeys \ req[p].written :
        ApplyOf(req[p].session)[k] = ApplyOf(store)[k]

C11_Witness ==
  /\ req[1].route = Route("child", "contact-information", "action")
  /\ req[1].dirty
  /\ req[1].written = {"contactInformation"}
  /\ ApplyOf(req[1].session).contactInformation # ApplyOf(store).contactInformation
  /\ IsSet(ApplyOf(store).communicationPreferences)
  /\ ApplyOf(store).dentalBenefits # Undefined

FieldsOf(session) == [k \in FieldGroups |-> ApplyOf(session)[k]]

ContactRoute == Route("child", "contact-information", "action")
CommunicationRoute == Route("child", "communication-preference", "action")

\* a contact-information submission that succeeded and is about to be committed
ContactSubmitted(p) ==
  req[p].route = ContactRoute /\ req[p].pc = "respond" /\ req[p].dirty

\* the contact-information submission of p followed by a communication-preference
\* submission of m (registry order), and the two in the other order, both from
\* the state p loaded
ContactThenCommunication(p, m) ==
  CommunicationPreferenceActionHandler(req[p].session, CsrfToken, m)

CommunicationFirst(m) ==
  CommunicationPreferenceActionHandler(store, CsrfToken, m)

CommunicationThenContact(p, m) ==
  ContactInformationActionHandler(CommunicationFirst(m).session, CsrfToken,
                                  Get(req[p].form).data)

BothOrdersSucceed(p, m) ==
  /\ ContactThenCommunication(p, m).dirty
  /\ CommunicationFirst(m).dirty
  /\ CommunicationThenContact(p, m).dirty

\* the fields after the two submissions in registry order are the loaded fields
\* with the two saved partials
UnionInRegistryOrder(p, m) ==
  FieldsOf(ContactThenCommunication(p, m).session) =
    [FieldsOf(store) EXCEPT
       !.contactInformation = Some(ContactInformationUpdatedData(Get(req[p].form).data)),
       !.communicationPreferences = Some(m)]

C14_NotFoundRedirectsToStart ==
  /\ \A p \in Procs :
       FlowRequest(p) =>
         /\ ~HasApply(store) =>
               (req[p].resp = Redirect(ApplyIndexPath) /\ ~req[p].dirty /\ req[p].session = store)
         /\ (HasApply(store) /\ ApplyOf(store).typeOfApplication # req[p].route.flow) =>
               /\ req[p].resp \in { Redirect(ApplyPath("type-application")),
                                    Redirect(ApplyPath("application-delegate")) }
               /\ req[p].resp = Redirect(ApplyPath("application-delegate")) =>
                     (ApplyOf(store).typeOfApplication = "delegate" /\ req[p].route \in ReviewRoutes)
               /\ ~req[p].dirty
               /\ req[p].session = store
  /\ (HasApply(store) /\ ApplyOf(store).typeOfApplication # "adult-child") =>
        validateApplyAdultChildStateForReview(ApplyOf(store)) =
          IF ApplyOf(store).typeOfApplication = "delegate"
            THEN Redirect(ApplyPath("application-delegate"))
            ELSE Redirect(ApplyPath("type-application"))

\* C15: the exit-application and file-your-taxes actions leave the session
\* without wizard state, and the state loaded after a clear is a fresh one: it
\* has a newly generated id, distinct from the id of every earlier state of
\* the session, and no field group, editMode or submissionInfo.
C15_ClearThenLoadIsFresh ==
  /\ [](HasApply(store) => ApplyOf(store).id \in 1..uuids)
  /\ [][ \A p \in Procs :
           (req[p].route \in ClearRoutes /\ req[p].dirty /\ req'[p].pc = "idle") =>
             ~HasApply(store') ]_vars
  /\ [][ (~HasApply(store) /\ HasApply(store')) =>
           /\ ApplyOf(store').id \notin 1..WizardId
           /\ ApplyOf(store') = [NewApplyState EXCEPT !.id = ApplyOf(store').id] ]_vars
  /\ [][ \A p \in Procs :
           (req[p].pc = "idle" /\ req'[p].route = Route("apply", "start", "loader")) =>
             ApplyOf(req'[p].session).id \notin 1..uuids ]_vars

C15_Witness ==
  /\ HasApply(store)
  /\ ApplyOf(store).id # WizardId
  /\ ApplyOf(store) = [NewApplyState EXCEPT !.id = uuids]

\* the submitted step data fails the schema of its step
FailsValidation(p) ==
  IF req[p].route = ContactRoute
    THEN ~ContactInformationValid(Get(req[p].form).data)
    ELSE ~CommunicationPreferenceValid(ApplyOf(store), Get(req[p].form).data)

\* C16: when the data submitted to a step action fails the schema, the action
\* answers with the field errors, issues no redirect and saves nothing: the
\* request's session is the stored one and the store is the same after the
\* request; a missing mailing address or preferred method is such a failure.
C16_ValidationErrorKeepsState ==
  /\ [](\A p \in Procs :
          (/\ InFlight(p) /\ req[p].route \in StepActionRoutes
           /\ loadApplyChildState(store, FlowPath("child", req[p].route.step)) = Ok
           /\ Get(req[p].form).csrf = store.csrfToken
           /\ \/ FailsValidation(p)
              \/ req[p].route = ContactRoute /\ Get(req[p].form).data.mailingAddress = ""
              \/ req[p].route = CommunicationRoute /\ Get(req[p].form).data.preferredMethod = "") =>
             (req[p].resp = Errors /\ ~req[p].dirty /\ req[p].session = store))
  /\ [][ \A p \in Procs :
           (req[p].resp = Errors /\ req'[p].pc = "idle") => store' = store ]_vars

C16_Witness ==
  /\ req[1].route = ContactRoute
  /\ req[1].resp = Errors
  /\ Get(req[1].form).data.email # Get(req[1].form).data.confirmEmail
  /\ HasApply(store)
  /\ IsSet(ApplyOf(store).contactInformation)

ReviewChildRoute == Route("child", "review-child-information", "action")

\* a POST that carries the _csrf field, with a token that is not the session's
TokenMismatch(p) ==
  /\ InFlight(p) /\ req[p].route.method = "action" /\ IsSet(req[p].form)
  /\ Get(req[p].form).csrf # store.csrfToken

\* what the flow guard the action starts with answers; the children summary
\* action starts with the token check
ActionGuard(route, session) ==
  CASE route = ReviewSubmitRoute ->
         loadApplyAdultStateForReview(session, FlowPath("adult", "review-information"))
    [] route = ReviewChildRoute ->
         loadApplyChildStateForReview(session, FlowPath("child", "review-child-information"))
    [] route \in StepActionRoutes -> loadApplyChildState(session, FlowPath("child", route.step))
    [] OTHER -> Ok

\* C17 (as stated): when the submitted token differs from the session's token,
\* every step and review action rejects the request with status 400 and saves,
\* clears, verifies and submits nothing.
C17_TokenMismatchRejected ==
  \A p \in Procs :
    TokenMismatch(p) =>
      (req[p].resp = Status400 /\ req[p].pc = "respond" /\ ~req[p].dirty /\ req[p].session = store)

\* C17 (amended): when the submitted token differs from the session's token,
\* every step and review action that reads the token rejects the request with
\* status 400 unless its flow guard has already redirected the request; in both
\* cases nothing is saved or cleared, the Submission Service is not called and
\* the store is the same after the request.
C17_TokenMismatchRejectedAfterGuard ==
  /\ [](\A p \in Procs :
          TokenMismatch(p) =>
            /\ req[p].resp = IF ActionGuard(req[p].route, store) = Ok
                               THEN Status400 ELSE ActionGuard(req[p].route, store)
            /\ req[p].pc = "respond"
            /\ ~req[p].dirty
            /\ req[p].session = store)
  /\ [][ \A p \in Procs :
           (TokenMismatch(p) /\ req'[p].pc = "idle") =>
             (store' = store /\ service' = service) ]_vars

C17_Witness ==
  /\ TokenMismatch(1)
  /\ req[1].route = ReviewSubmitRoute
  /\ Get(req[1].form).data.action = "submit"
  /\ hCaptchaEnabled /\ ~Get(req[1].form).data.captcha
  /\ req[1].resp = Status400

\* a review-step submit that passed the guard and the token check while CAPTCHA
\* is enabled and the verification of its response fails
CaptchaFailed(p) ==
  /\ InFlight(p) /\ req[p].route \in {ReviewSubmitRoute, ReviewChildRoute}
  /\ ActionGuard(req[p].route, store) = Ok
  /\ Get(req[p].form).csrf = store.csrfToken
  /\ Get(req[p].form).data.action = "submit"
  /\ hCaptchaEnabled /\ ~Get(req[p].form).data.captcha

\* C18: when CAPTCHA is enabled and its verification fails on a review-step
\* submit, the wizard state of the session is cleared, the answer is a redirect
\* to the unable-to-process page, the Submission Service is not called and
\* submissionInfo is not set.
C18_CaptchaFailureClears ==
  /\ [](\A p \in Procs :
          CaptchaFailed(p) =>
            /\ req[p].pc = "respond"
            /\ req[p].resp = Redirect(UnableToProcessPath)
            /\ req[p].dirty
            /\ ~HasApply(req[p].session))
  /\ [][ \A p \in Procs :
           (CaptchaFailed(p) /\ req'[p].pc = "idle") =>
             (~HasApply(store') /\ service' = service) ]_vars

C18_Witness ==
  /\ CaptchaFailed(1)
  /\ req[1].route = ReviewSubmitRoute
  /\ req[1].resp = Redirect(UnableToProcessPath)
  /\ HasApply(store)

EditMode(session) == HasApply(session) /\ ApplyOf(session).editMode

ReviewLoaderRoutes ==
  { Route("adult", "review-information", "loader"),
    Route("child", "review-child-information", "loader") }

\* the review loader has accepted the state and renders the review step
ReviewAccepted(p) ==
  InFlight(p) /\ req[p].route \in ReviewLoaderRoutes /\ req[p].resp = Render

\* a review action that leaves the review step with the Back button
BackAction(p) ==
  /\ req[p].route \in {ReviewSubmitRoute, ReviewChildRoute}
  /\ IsSet(req[p].form)
  /\ Get(req[p].form).data.action = "back"

\* C19 (as stated): once editMode is true (the review loader has accepted the
\* state) it stays true in every later state of the session until the state is
\* cleared.
C19_EditModeStaysTrue ==
  [][ (EditMode(store) /\ HasApply(store')) => EditMode(store') ]_vars

\* C19 (amended): the review loader that accepts the state leaves editMode
\* true, and once editMode is true it stays true until the state is cleared or
\* a review action leaves the review step with Back, which sets it to false.
C19_EditModeTrueUntilBack ==
  /\ [](\A p \in Procs : ReviewAccepted(p) => (req[p].dirty /\ EditMode(req[p].session)))
  /\ [][ (EditMode(store) /\ HasApply(store') /\ ~EditMode(store')) =>
           \E p \in Procs :
             /\ BackAction(p)
             /\ req[p].pc = "respond" /\ req[p].written = {"editMode"}
             /\ req'[p].pc = "idle" ]_vars

C19_Witness ==
  /\ EditMode(store)
  /\ ApplyOf(store).typeOfApplication = "adult"
  /\ req[1].route = ReviewSubmitRoute
  /\ req[1].pc = "await"
  /\ EditMode(req[1].session)

\* the step after a step in the linear order of the child flow
LinearSuccessor(step) ==
  IF step = "contact-information" THEN "communication-preference"
                                  ELSE "review-child-information"

\* C20: a successful step submission made while the loaded state has editMode
\* true is redirected to the review step (review-adult-information), and one
\* made while it has editMode false to the step's linear successor; the
\* editMode that decides is the one of the state loaded at the start of the
\* action, not the one the action saves.
C20_EditModeDecidesRedirect ==
  \A p \in Procs :
    (InFlight(p) /\ req[p].route \in StepActionRoutes /\ req[p].dirty) =>
      req[p].resp =
        IF EditMode(store)
          THEN Redirect(FlowPath("child", "review-adult-information"))
          ELSE Redirect(FlowPath("child", LinearSuccessor(req[p].route.step)))

C20_Witness ==
  /\ req[1].route = CommunicationRoute
  /\ req[1].dirty
  /\ ~EditMode(store)
  /\ EditMode(req[1].session)
  /\ req[1].resp = Redirect(FlowPath("child", "review-child-information"))

\* C21: the guard is a pure decision. A loader that the guard (or, on a
\* review step, the review validation) answers with a redirect has saved
\* nothing and its session is the stored one; a loader it lets through has the
\* stored wizard state, except that a review loader has then saved editMode
\* true; an action whose guard answers a redirect responds with that redirect
\* and has saved nothing.
C21_GuardIsPure ==
  \A p \in Procs :
    FlowRequest(p) =>
      /\ (req[p].route.method = "loader" /\ req[p].resp.kind = "redirect") =>
            ~req[p].dirty /\ req[p].session = store
      /\ (req[p].route.method = "loader" /\ req[p].resp = Render) =>
            /\ HasApply(store)
            /\ req[p].session =
                 IF req[p].route \in ReviewLoaderRoutes
                   THEN [store EXCEPT !.apply = Some([ApplyOf(store) EXCEPT !.editMode = TRUE])]
                   ELSE store
            /\ req[p].route \notin ReviewLoaderRoutes => ~req[p].dirty
      /\ (req[p].route.method = "action" /\ ActionGuard(req[p].route, store).kind # "ok") =>
            /\ req[p].resp = ActionGuard(req[p].route, store)
            /\ ~req[p].dirty
            /\ req[p].session = store

C21_Witness ==
  /\ req[1].route = Route("adult-child", "date-of-birth", "loader")
  /\ req[1].pc = "respond"
  /\ HasApply(store)
  /\ req[1].resp = Redirect(FlowPath("adult-child", "confirmation"))
  /\ req[1].session = store

\* the records of an email that no other record of the email was created after
MostRecent(table, email) ==
  { r \in { table[i] : i \in 1..Len(table) } :
      /\ r.email = email
      /\ \A i \in 1..Len(table) : table[i].email = email => table[i].createdDate <= r.createdDate }

\* C22: a verification answers noCode exactly when the email has no record;
\* otherwise there is a most recently created record of the email such that
\* the answer is Valid exactly when the entered code is the record's and the
\* time is before its expiry, expired when the code is the record's and the
\* expiry has passed, and mismatch only when the entered code is not the
\* record's.
C22_VerifyComparesLatest ==
  codeReply.op = "verify" =>
    LET latest == MostRecent(subscriptionConfirmationCode, codeReply.email)
        answer == codeReply.confirmCodeStatus
    IN  /\ answer = "noCode" <=> latest = {}
        /\ latest # {} =>
              \E r \in latest :
                LET match == r.confirmationCode = codeReply.confirmationCode IN
                /\ answer = "Valid" <=> (match /\ codeReply.timeEntered < r.expiryDate)
                /\ (match /\ codeReply.timeEntered > r.expiryDate) => answer = "expired"
                /\ answer = "mismatch" => ~match

RecordsOf(table, email) == { i \in 1..Len(table) : table[i].email = email }

\* C27: a request for a new code succeeds and leaves exactly one record for
\* its email, expiring two days after the request, whatever records other
\* emails have; and a verification of the issued code made before the expiry
\* of the email's record answers Valid.
C27_RequestIssuesOneValidCode ==
  LET table == subscriptionConfirmationCode
      mine == RecordsOf(table, codeReply.email)
  IN  /\ codeReply.op = "request" =>
            /\ codeReply.status = 204
            /\ Cardinality(mine) = 1
            /\ \A i \in mine :
                 /\ table[i].confirmationCode = IssuedCode
                 /\ table[i].expiryDate = codeReply.timeEntered + TwoDays
      /\ ( /\ codeReply.op = "verify"
           /\ codeReply.confirmationCode = IssuedCode
           /\ \E i \in mine : codeReply.timeEntered < table[i].expiryDate )
         => codeReply.confirmCodeStatus = "Valid"

\* C24: a user has at most one subscription per alert type code, whatever
\* way createSubscriptionForUser requests interleave.
C24_OneSubscriptionPerAlertType ==
  \A i, j \in 1..Len(subscription) :
    ( /\ subscription[i].userId = subscription[j].userId
      /\ subscription[i].alertTypeCode = subscription[j].alertTypeCode ) => i = j

\* C25: the sessions created through the storage have distinct ids.
C25_CreatedSessionsHaveDistinctIds ==
  \A i, j \in 1..Len(sessions) : sessions[i] = sessions[j] => i = j

\* what readData(id) answers in a state of the database
ReadBack(db, id) == JSONparse(redisGet(db, id))

\* the data as JSON carries it: without the keys whose value is undefined
WithoutUndefined(data) ==
  [k \in {key \in DOMAIN data : data[key] # Undefined} |-> data[k]]

\* C26 (as stated): step by step, readData(id) answers the data of the
\* createData or updateData the step made for the id, no data after the
\* step's deleteData(id), and what it answered before the step otherwise; a
\* readData step answers exactly that.
C26_ReadReturnsLastWrite ==
  [][ /\ \A id \in SessionIds :
           ReadBack(redis', id) =
             IF sessionReply'.id = id /\ sessionReply'.op \in {"createData", "updateData"}
               THEN sessionReply'.data
             ELSE IF sessionReply'.id = id /\ sessionReply'.op = "deleteData"
               THEN JsNull
             ELSE ReadBack(redis, id)
      /\ sessionReply'.op = "readData" =>
           sessionReply'.result = ReadBack(redis, sessionReply'.id)
    ]_redisVars

\* C26 (amended): the same, with the data as JSON carries it: readData(id)
\* answers the data of the last createData or updateData for the id without
\* the keys whose value was undefined.
C26_ReadReturnsLastWriteAsJson ==
  [][ /\ \A id \in SessionIds :
           ReadBack(redis', id) =
             IF sessionReply'.id = id /\ sessionReply'.op \in {"createData", "updateData"}
               THEN WithoutUndefined(sessionReply'.data)
             ELSE IF sessionReply'.id = id /\ sessionReply'.op = "deleteData"
               THEN JsNull
             ELSE ReadBack(redis, id)
      /\ sessionReply'.op = "readData" =>
           sessionReply'.result = ReadBack(redis, sessionReply'.id)
    ]_redisVars

\* an update whose data has a key with an undefined value has been stored for
\* a session the storage did not create, while the created session keeps its data
C26_Witness ==
  /\ sessionReply.op = "updateData"
  /\ sessionReply.id # sessionId
  /\ \E k \in DOMAIN sessionReply.data : sessionReply.data[k] = Undefined
  /\ ReadBack(redis, sessionReply.id) = WithoutUndefined(sessionReply.data)
  /\ ReadBack(redis, sessionReply.id) # sessionReply.data
  /\ sessions # <<>>
  /\ ReadBack(redis, sessionId) # JsNull

\* the step before a review step
ReviewPredecessor(route) ==
  IF route = ReviewSubmitRoute
    THEN FlowPath("adult", "federal-provincial-territorial-benefits")
    ELSE FlowPath("child", "communication-preference")

\* C28: a Back action of a review step that carries the session's token and
\* has passed the review guard only sets editMode to false and redirects to
\* the predecessor step, whatever its CAPTCHA response: the rest of the wizard
\* state is the stored one, the state is not cleared and the Submission
\* Service is not called.
C28_BackOnlyLeavesEditMode ==
  \A p \in Procs :
    ( /\ InFlight(p)
      /\ BackAction(p)
      /\ Get(req[p].form).csrf = store.csrfToken
      /\ ActionGuard(req[p].route, store).kind = "ok" ) =>
        /\ req[p].pc = "respond"
        /\ req[p].resp = Redirect(ReviewPredecessor(req[p].route))
        /\ req[p].session = saveApplyState(store, [editMode |-> FALSE])

\* C29: whenever the stored wizard state prefers the email method and has a
\* contact email, the email of the communication preferences is the contact
\* email.
C29_PreferredEmailIsContactEmail ==
  ( /\ HasApply(store)
    /\ IsSet(ApplyOf(store).communicationPreferences)
    /\ Get(ApplyOf(store).communicationPreferences).preferredMethod = EmailMethod
    /\ IsSet(ApplyOf(store).contactInformation)
    /\ Get(ApplyOf(store).contactInformation).email # "" ) =>
      Get(ApplyOf(store).communicationPreferences).email =
        Get(ApplyOf(store).contactInformation).email

\* the six mailing and the six home fields of a contactInformation
Mailing(c) ==
  [f \in AddressFields |->
     CASE f = "Address" -> c.mailingAddress [] f = "Apartment" -> c.mailingApartment
       [] f = "Country" -> c.mailingCountry [] f = "Province" -> c.mailingProvince
       [] f = "City" -> c.mailingCity [] f = "PostalCode" -> c.mailingPostalCode]

Home(c) ==
  [f \in AddressFields |->
     CASE f = "Address" -> c.homeAddress [] f = "Apartment" -> c.homeApartment
       [] f = "Country" -> c.homeCountry [] f = "Province" -> c.homeProvince
       [] f = "City" -> c.homeCity [] f = "PostalCode" -> c.homePostalCode]

\* C30 (as stated): a contactInformation saved with copyMailingAddress true
\* has each of its six home fields equal to its mailing field; one saved with
\* copyMailingAddress false has the six home fields as they were submitted.
C30_HomeIsMailingOrSubmitted ==
  IsSet(contactReply.saved) =>
    LET saved == Get(contactReply.saved) IN
    IF saved.copyMailingAddress
      THEN Home(saved) = Mailing(saved)
      ELSE Home(saved) = Home(contactReply.data)

\* a submitted home field as the schema saves it: trimmed, and the postal code
\* of an address with a country formatted for the country
Normalised(data, f) ==
  LET trimmed == [g \in AddressFields |-> zodTrim(Home(data)[g])] IN
  IF f = "PostalCode" /\ Truthy(trimmed["Country"]) /\ Truthy(trimmed["PostalCode"])
    THEN Str(formatPostalCode(trimmed["Country"].chars, trimmed["PostalCode"].chars))
    ELSE trimmed[f]

\* C30 (amended): with copyMailingAddress true the six saved home fields equal
\* the saved mailing fields, whatever home values were submitted; with
\* copyMailingAddress false they are the submitted home values trimmed, the
\* postal code formatted.
C30_HomeIsMailingOrNormalised ==
  IsSet(contactReply.saved) =>
    LET saved == Get(contactReply.saved) IN
    IF saved.copyMailingAddress
      THEN Home(saved) = Mailing(saved)
      ELSE \A f \in AddressFields : Home(saved)[f] = Normalised(contactReply.data, f)

\* a copied address saved over submitted home values that differ from it
C30_Witness ==
  /\ IsSet(contactReply.saved)
  /\ Get(contactReply.saved).copyMailingAddress
  /\ \A f \in AddressFields \ {"Country"} :
       /\ Home(contactReply.data)[f].defined
       /\ zodTrim(Home(contactReply.data)[f]) # zodTrim(Mailing(contactReply.data)[f])
  /\ Home(Get(contactReply.saved)) = Mailing(Get(contactReply.saved))

====
